---- MODULE Spec2Model ----
(***************************************************************************)
(* Model of the Databricks admin agent: DatabricksAgentWrapper.predict     *)
(* (src/agent_model.py), the two-node LangGraph graph it invokes (agent    *)
(* node, tools_condition, ToolNode), the REST tool callables of           *)
(* src/tools.py, and the schema normalization of Graphbuilder.__init__.    *)
(*                                                                         *)
(* Texts are modelled by what they hold: [text |-> s] is a plain string,   *)
(* [json_object |-> o] is json.dumps of a dict, [json_array |-> l] is      *)
(* json.dumps of a list.                                                   *)
(***************************************************************************)
EXTENDS Integers, Sequences, FiniteSets, TLC

VARIABLES
    scenario,      \* the environment of this run: "varied" or "persistent"
    baseUrl,       \* the module global DATABRICKS_BASE_URL of src/tools.py
    pc,            \* position of predict: "idle", "invoking", "returned", "raised"
    request,       \* the inbound request_dict of the current predict call
    messages,      \* state['messages'] of the graph: the conversation
    loop,          \* position of the graph: "Idle", "Planning", "Executing", "Done", "Failed"
    step,          \* number of the super-step the graph runtime runs next
    nextCall,      \* number of tool-call identifiers the model endpoint has issued
    plannerCalls,  \* number of llm_with_tools.invoke calls made for this request
    toolPhases,    \* number of ToolNode runs made for this request
    toolRuns,      \* number of tool callables invoked for this request
    response,      \* the ResponsesAgentResponse predict returned (output list)
    fault,         \* str(e) of the exception raised in the graph or out of predict
    outcomes,      \* what the platform did with the requests of the last ToolNode run
    inFlight,      \* how far each call of the ToolNode run in progress has come
    uuids,         \* number of uuid4 values drawn
    predictCalls,  \* number of predict calls made on this agent
    answers,       \* the messages the planner and the tools gave during this request
    plannerInput,  \* input_messages of the latest llm_with_tools.invoke call
    httpRequests,  \* number of HTTP requests the tools put on the wire for this request
    declaration,   \* a tool declaration as convert_to_openai_tool returns it
    normalized     \* the results of the successive fix_schema_recursive passes over it

\* The variables of Graphbuilder.__init__'s schema normalization.
schemaVars == <<declaration, normalized>>

vars == <<scenario, baseUrl, inFlight, pc, predictCalls, request, messages, answers, plannerInput, loop, step,
          nextCall, plannerCalls, toolPhases, toolRuns, httpRequests, response, fault,
          outcomes, uuids, schemaVars>>

----------------------------------------------------------------------------
(* Bounds of the model *)

\* Tool calls the varied planner may request in one predict call, over all turns.
MaxToolCalls == 3
\* Items of an inbound `input` list.
MaxInput == 2
\* Nodes (mappings, sequences and scalars) of a tool declaration.
MaxSize == 5
\* Successive passes of fix_schema_recursive over one declaration.
MaxPasses == 2
\* predict calls made in a row on one agent.
MaxRequests == 2

----------------------------------------------------------------------------
(* Texts *)

Plain(s) == [text |-> s]
JsonObject(o) == [json_object |-> o]
JsonArray(l) == [json_array |-> l]

SYSTEM_PROMPT == "You are a helpful assistant. You have access to tools to answer questions"

----------------------------------------------------------------------------
(* src/tools.py: the tool callables *)

\* One row per @tool function: the HTTP verb it uses ("none": no HTTP request),
\* the endpoint path, the value of the "tool" key in its except-branch payload,
\* and the shape of its success value.
ToolTable ==
    [list_service_principal |->
        [method |-> "GET", path |-> "/api/2.0/preview/scim/v2/ServicePrincipals",
         tool |-> "list_service_principal", returns |-> "response"],
     create_service_principal |->
        [method |-> "POST", path |-> "/api/2.0/preview/scim/v2/ServicePrincipals",
         tool |-> "create_service_principal", returns |-> "response"],
     get_service_principal_details |->
        [method |-> "GET", path |-> "/api/2.0/preview/scim/v2/ServicePrincipals/{id}",
         tool |-> "get_service_principal_details", returns |-> "response"],
     delete_service_principal |->
        [method |-> "DELETE", path |-> "/api/2.0/preview/scim/v2/ServicePrincipals/{id}",
         tool |-> "delete_service_principal", returns |-> "status"],
     list_of_scopes |->
        [method |-> "GET", path |-> "/api/2.0/secrets/scopes/list",
         tool |-> "list_of_scopes", returns |-> "scopes"],
     create_scope |->
        [method |-> "POST", path |-> "/api/2.0/secrets/scopes/create",
         tool |-> "create_scope", returns |-> "status"],
     add_secret |->
        [method |-> "POST", path |-> "/api/2.0/secrets/put",
         tool |-> "create_secret", returns |-> "status"],
     delete_secret |->
        [method |-> "POST", path |-> "/api/2.0/secrets/delete",
         tool |-> "delete_secret", returns |-> "status"],
     delete_scope |->
        [method |-> "POST", path |-> "/api/2.0/secrets/scopes/delete",
         tool |-> "delete_scope", returns |-> "status"],
     get_secret |->
        [method |-> "none", path |-> "dbutils.secrets.get",
         tool |-> "get_secret", returns |-> "secret"],
     create_acl_scopes |->
        [method |-> "POST", path |-> "/api/2.0/secrets/acls/put",
         tool |-> "create_acl_scopes", returns |-> "status"],
     list_acl_scopes |->
        [method |-> "GET", path |-> "/api/2.0/secrets/acls/list",
         tool |-> "list_acl_scopes", returns |-> "response"],
     delete_acl_scopes |->
        [method |-> "POST", path |-> "/api/2.0/secrets/acls/delete",
         tool |-> "delete_acl_scopes", returns |-> "status"],
     list_clusters |->
        [method |-> "GET", path |-> "/api/2.1/clusters/list",
         tool |-> "list_clusters", returns |-> "clusters"],
     terminate_clusters |->
        [method |-> "POST", path |-> "/api/2.1/clusters/delete",
         tool |-> "terminate_clusters", returns |-> "status"],
     start_cluster |->
        [method |-> "POST", path |-> "/api/2.1/clusters/start",
         tool |-> "start_cluster", returns |-> "status"],
     get_cluster_info |->
        [method |-> "GET", path |-> "/api/2.1/clusters/get",
         tool |-> "get_cluster_info", returns |-> "response"],
     restart_cluster |->
        [method |-> "POST", path |-> "/api/2.1/clusters/restart",
         tool |-> "restart_cluster", returns |-> "status"],
     start_job |->
        [method |-> "POST", path |-> "/api/2.2/jobs/run-now",
         tool |-> "start_job", returns |-> "status"],
     list_jobs |->
        [method |-> "GET", path |-> "/api/2.2/jobs/list",
         tool |-> "list_jobs", returns |-> "response"],
     cancel_job |->
        [method |-> "POST", path |-> "/api/2.2/jobs/runs/cancel-all",
         tool |-> "list_jobs", returns |-> "text"],
     get_job_details |->
        [method |-> "GET", path |-> "/api/2.2/jobs/get",
         tool |-> "get_job", returns |-> "response"]]

\* discover_tools: every BaseTool object of the tools module, by registered name.
discover_tools == DOMAIN ToolTable

\* DATABRICKS_BASE_URL, line 7, as the source assigns it: a text with no
\* scheme and no host.
DATABRICKS_BASE_URL == "YOUR DATABRICKS BASE URL"
\* The value a deployment assigns in its place: the URL of its workspace.
WorkspaceHost == "dbx.example"
WorkspaceUrl == "https://" \o WorkspaceHost
\* The values of the module global explored.
BaseUrls == {DATABRICKS_BASE_URL, WorkspaceUrl}
\* The scheme and the host requests finds in a URL that starts with the base.
SchemeOf(base) == IF base = WorkspaceUrl THEN "https" ELSE ""
HostOf(base) == IF base = WorkspaceUrl THEN WorkspaceHost ELSE ""

\* What the platform does with one HTTP request: answers 200 with the JSON
\* object the tool expects, 200 with a body that is no JSON, 200 with a JSON
\* array, 403, 500, or nothing within the 30 seconds of the timeout.
Outcomes == {"ok", "not_json", "json_list", "forbidden", "server_error", "network_fault"}
\* The outcome recorded for a call that reaches no tool callable.
NotInvoked == "not_invoked"
\* The callable ran and issued no HTTP request.
NoHttp == "no_http"
\* The call has not been taken up yet by the ToolNode run.
NotEntered == "not_entered"
\* The callable is blocked in requests.get, requests.post or requests.delete:
\* its request is on the wire and the answer has not come.
Waiting == "waiting"

\* The arguments of a call with no argument.
NoArguments == <<>>

\* The arguments the planner passes to a tool; numbers are held by their
\* decimal text and None by the empty text (the tools only test such a value
\* for truth).  add_secret has four parameters and no default: it is asked
\* for with a string value and no bytes value, and with both.  start_job is
\* asked for without job_parameters, with a JSON text and with a text that
\* is no JSON.
ArgumentsOf(name) ==
    CASE name = "create_service_principal" -> {[display_name |-> "sp1"]}
      [] name \in {"get_service_principal_details", "delete_service_principal"} ->
            {[id |-> "1"]}
      [] name \in {"create_scope", "delete_scope", "list_acl_scopes"} -> {[scope |-> "s1"]}
      [] name = "add_secret" ->
            {[scope |-> "s1", key |-> "k1", string_value |-> "v1", bytes_value |-> ""],
             [scope |-> "s1", key |-> "k1", string_value |-> "v1", bytes_value |-> "djE="]}
      [] name \in {"delete_secret", "get_secret"} -> {[scope |-> "s1", key |-> "k1"]}
      [] name = "create_acl_scopes" ->
            {[scope |-> "s1", permission |-> "READ", principal |-> "p1"]}
      [] name = "delete_acl_scopes" -> {[scope |-> "s1", principal |-> "p1"]}
      [] name \in {"terminate_clusters", "start_cluster", "get_cluster_info",
                   "restart_cluster"} -> {[cluster_id |-> "c1"]}
      [] name = "start_job" ->
            {[job_id |-> "1"],
             [job_id |-> "1", job_parameters |-> "{}"],
             [job_id |-> "1", job_parameters |-> "{bad"]}
      [] name \in {"cancel_job", "get_job_details"} -> {[job_id |-> "1"]}
      [] OTHER -> {NoArguments}

\* api_endpoint of a tool: the base URL, the path, and the id for the two
\* paths that end with it.
Endpoint(base, name, args) ==
    IF name \in {"get_service_principal_details", "delete_service_principal"}
    THEN base \o "/api/2.0/preview/scim/v2/ServicePrincipals/" \o args.id
    ELSE base \o ToolTable[name].path

\* str(e) of the exception json.loads raises on a text: "" when it raises none.
JsonLoadsError(s) ==
    IF s = "{bad"
    THEN "Expecting property name enclosed in double quotes: line 1 column 2 (char 1)"
    ELSE ""

\* str(e) of the MissingSchema requests raises, while it prepares the
\* request, on a URL without a scheme.
MissingSchemaText(url) ==
    "Invalid URL '" \o url \o "': No scheme supplied. Perhaps you meant https://"
        \o url \o "?"

\* str(e) of the exception a tool raises in its try block before a request
\* goes on the wire: "" when it raises none.  get_secret reads dbutils, which
\* the module never defines; start_job parses a non-empty job_parameters;
\* requests.get, requests.post and requests.delete refuse a URL that has no
\* scheme.
PreRequestFault(base, name, args) ==
    IF ToolTable[name].method = "none" THEN "name 'dbutils' is not defined"
    ELSE IF name = "start_job" /\ "job_parameters" \in DOMAIN args
                               /\ args.job_parameters # ""
                               /\ JsonLoadsError(args.job_parameters) # ""
    THEN JsonLoadsError(args.job_parameters)
    ELSE IF SchemeOf(base) = "" THEN MissingSchemaText(Endpoint(base, name, args))
    ELSE ""

\* The except branch shared by every tool:
\* json.dumps({"error": f"Databricks API Error: {str(e)}", "tool": <literal>}).
ErrorPayload(name, detail) ==
    JsonObject([error |-> "Databricks API Error: " \o detail,
                tool |-> ToolTable[name].tool])

\* The JSON object the platform answers with on success.
ServerBody(name) ==
    IF name = "list_clusters" THEN [clusters |-> <<"c1">>]
    ELSE IF name = "list_of_scopes" THEN [scopes |-> <<"s1">>]
    ELSE [id |-> name]

\* The answer of the platform: status code, reason phrase and body text.
Response(name, outcome) ==
    CASE outcome = "ok" ->
            [status_code |-> 200, reason |-> "OK", body |-> JsonObject(ServerBody(name))]
      [] outcome = "not_json" -> [status_code |-> 200, reason |-> "OK", body |-> Plain("")]
      [] outcome = "json_list" ->
            [status_code |-> 200, reason |-> "OK", body |-> JsonArray(<<"x">>)]
      [] outcome = "forbidden" ->
            [status_code |-> 403, reason |-> "Forbidden", body |-> Plain("")]
      [] outcome = "server_error" ->
            [status_code |-> 500, reason |-> "Internal Server Error", body |-> Plain("")]

StatusText(code) ==
    CASE code = 200 -> "200"
      [] code = 403 -> "403"
      [] code = 500 -> "500"

\* str(e) of the HTTPError response.raise_for_status() raises: "" when it
\* raises none.
raise_for_status(resp, url) ==
    IF resp.status_code >= 400 /\ resp.status_code < 500
    THEN StatusText(resp.status_code) \o " Client Error: " \o resp.reason
             \o " for url: " \o url
    ELSE IF resp.status_code >= 500 /\ resp.status_code < 600
    THEN StatusText(resp.status_code) \o " Server Error: " \o resp.reason
             \o " for url: " \o url
    ELSE ""

\* str(e) of the ReadTimeout requests raises when no answer comes in time.
TimeoutText(base) ==
    "HTTPSConnectionPool(host='" \o HostOf(base)
        \o "', port=443): Read timed out. (read timeout=30.0)"

\* str(e) of the exception response.json() raises on the body: "" when it
\* raises none.
ResponseJsonError(resp) ==
    IF "text" \in DOMAIN resp.body THEN "Expecting value: line 1 column 1 (char 0)" ELSE ""

\* response.json().get(field, [])
GetList(body, field) == IF field \in DOMAIN body THEN body[field] ELSE <<>>

\* The f-string a status-returning tool builds on success.
SuccessMessage(name, args) ==
    CASE name = "delete_service_principal" ->
            "Service Principal with ID " \o args.id \o " deleted successfully."
      [] name = "create_scope" -> "Scope " \o args.scope \o " created successfully."
      [] name = "add_secret" -> "Secret with key " \o args.key \o " stored successfully."
      [] name = "delete_secret" -> "Secret with key " \o args.key \o " deleted successfully."
      [] name = "delete_scope" -> "Scope " \o args.scope \o " deleted successfully."
      [] name = "create_acl_scopes" ->
            "Gave " \o args.permission \o " permission to " \o args.principal
                \o " on " \o args.scope \o "."
      [] name = "delete_acl_scopes" ->
            "Deleted permissions for " \o args.principal \o " on " \o args.scope \o "."
      [] name = "terminate_clusters" ->
            "Cluster " \o args.cluster_id \o " terminated successfully."
      [] name = "start_cluster" -> "Cluster " \o args.cluster_id \o " started successfully."
      [] name = "restart_cluster" ->
            "Cluster " \o args.cluster_id \o " restarted successfully."
      [] name = "start_job" -> "Job: " \o args.job_id \o " started successfully."
      [] OTHER -> ""

\* The try branch of a tool after raise_for_status passed: the tools that
\* return the response parse its body (and the two list tools call .get on
\* the outcome); the others do not read it.
SuccessValue(name, args, resp) ==
    LET kind == ToolTable[name].returns IN
    IF kind \in {"response", "clusters", "scopes"}
    THEN IF ResponseJsonError(resp) # "" THEN ErrorPayload(name, ResponseJsonError(resp))
         ELSE IF kind = "response" THEN resp.body
         ELSE IF "json_array" \in DOMAIN resp.body
              THEN ErrorPayload(name, "'list' object has no attribute 'get'")
              ELSE JsonArray(GetList(resp.body.json_object, kind))
    ELSE IF kind = "text" THEN Plain("Job: " \o args.job_id \o " cancelled succesfully")
    ELSE JsonObject([status |-> "Success", message |-> SuccessMessage(name, args)])

\* One invocation of a tool callable: the text it returns.
ToolCallable(base, name, args, outcome) ==
    IF PreRequestFault(base, name, args) # ""
    THEN ErrorPayload(name, PreRequestFault(base, name, args))
    ELSE IF outcome = "network_fault" THEN ErrorPayload(name, TimeoutText(base))
    ELSE LET resp == Response(name, outcome)
             raised == raise_for_status(resp, Endpoint(base, name, args))
         IN IF raised # "" THEN ErrorPayload(name, raised)
            ELSE SuccessValue(name, args, resp)

----------------------------------------------------------------------------
(* langchain messages, as the graph state holds them *)

HumanMessage(c) ==
    [type |-> "human", content |-> c, tool_calls |-> <<>>, tool_call_id |-> 0,
     name |-> "", status |-> ""]
AIMessage(c, calls) ==
    [type |-> "ai", content |-> c, tool_calls |-> calls, tool_call_id |-> 0,
     name |-> "", status |-> ""]
SystemMessage(c) ==
    [type |-> "system", content |-> c, tool_calls |-> <<>>, tool_call_id |-> 0,
     name |-> "", status |-> ""]
ToolMessage(c, name, id, status) ==
    [type |-> "tool", content |-> c, tool_calls |-> <<>>, tool_call_id |-> id,
     name |-> name, status |-> status]

----------------------------------------------------------------------------
(* Inbound requests *)

\* Items an `input` list is drawn from.  A content is a flat string
\* ([str |-> s]) or a list of parts ([parts |-> <<...>>]); a part is a dict
\* with or without a "text" key.  The last two items are malformed: one lacks
\* "content", one lacks "role".
InputItems ==
    {[role |-> "user", content |-> [str |-> "list my clusters"]],
     [role |-> "assistant",
      content |-> [parts |-> <<[type |-> "output_text", text |-> "earlier"],
                               [type |-> "refusal"],
                               [type |-> "output_text", text |-> "answer"]>>]],
     [role |-> "system", content |-> [str |-> "be brief"]],
     [role |-> "tool", content |-> [str |-> "tool output"]],
     [role |-> "user"],
     [content |-> [str |-> "no role"]]}

InputLists == UNION {[1..n -> InputItems] : n \in 0..MaxInput}

\* request_dict: without an "input" key, with an "input" that is no list, or
\* with an "input" list.
Requests ==
    {[model |-> "agent"]}
        \cup {[input |-> [scalar |-> 7]]}
        \cup {[input |-> [list |-> l]] : l \in InputLists}

NoRequest == [unset |-> TRUE]

\* " ".join(texts)
RECURSIVE Join(_, _)
Join(sep, texts) ==
    IF texts = <<>> THEN ""
    ELSE IF Len(texts) = 1 THEN texts[1]
    ELSE texts[1] \o sep \o Join(sep, Tail(texts))

\* [item.get("text", "") for item in content if isinstance(item, dict) and "text" in item]
RECURSIVE PartTexts(_)
PartTexts(parts) ==
    IF parts = <<>> THEN <<>>
    ELSE (IF "text" \in DOMAIN Head(parts) THEN <<Head(parts).text>> ELSE <<>>)
             \o PartTexts(Tail(parts))

\* predict, lines 272-275: the content of one inbound item as one string.
ContentText(content) ==
    IF "parts" \in DOMAIN content THEN Plain(Join(" ", PartTexts(content.parts)))
    ELSE Plain(content.str)

\* The translation as it would be if an item of any other role were kept as
\* a human message.
TranslateItemAnyRole(msg) ==
    IF msg.role = "assistant" THEN <<AIMessage(ContentText(msg.content), <<>>)>>
    ELSE IF msg.role = "system" THEN <<SystemMessage(ContentText(msg.content))>>
    ELSE <<HumanMessage(ContentText(msg.content))>>

\* predict, lines 277-287: the langchain message of one inbound item; an item
\* of any other role appends nothing.
TranslateItem(msg) ==
    IF msg.role = "user" THEN <<HumanMessage(ContentText(msg.content))>>
    ELSE IF msg.role = "assistant" THEN <<AIMessage(ContentText(msg.content), <<>>)>>
    ELSE IF msg.role = "system" THEN <<SystemMessage(ContentText(msg.content))>>
    ELSE <<>>

\* The KeyError msg["content"] or msg["role"] raises on an item: "" when none.
ItemKeyError(msg) ==
    IF "content" \notin DOMAIN msg THEN "'content'"
    ELSE IF "role" \notin DOMAIN msg THEN "'role'"
    ELSE ""

\* predict, lines 266-291: the for loop over request_dict["input"].  It
\* stops at the first item that raises.
RECURSIVE TranslateInput(_)
TranslateInput(items) ==
    IF items = <<>> THEN [error |-> "", messages |-> <<>>]
    ELSE IF ItemKeyError(Head(items)) # ""
         THEN [error |-> ItemKeyError(Head(items)), messages |-> <<>>]
    ELSE LET rest == TranslateInput(Tail(items)) IN
         IF rest.error # "" THEN rest
         ELSE [error |-> "", messages |-> TranslateItem(Head(items)) \o rest.messages]

----------------------------------------------------------------------------
(* The model endpoint (llm_with_tools.invoke) *)

\* Tool names the varied planner asks for; the last is in no registry.
PlannerToolNames == {"list_clusters", "add_secret", "purge_workspace"}
\* The one tool the persistent planner keeps asking for.
PersistentToolName == "list_clusters"
\* Final answers of the planner.
AnswerTexts == {"You have one cluster: c1.", "I could not do that."}
\* str(e) of a fault of the model endpoint.
EndpointFaults == {"model endpoint unavailable"}

\* What the planner may ask for in one call: a tool name and its arguments.
Asks(names) ==
    UNION {{[name |-> n, args |-> a] : a \in ArgumentsOf(n)} : n \in names}

\* The tool-call requests of one assistant turn: the endpoint gives each call
\* an identifier it has not used before.
ToolCalls(asks, issued) ==
    [j \in 1..Len(asks) |->
        [id |-> issued + j, name |-> asks[j].name, args |-> asks[j].args]]

\* Tool calls requested so far in this conversation.
RECURSIVE CallsRequested(_)
CallsRequested(msgs) ==
    IF msgs = <<>> THEN 0
    ELSE Len(Head(msgs).tool_calls) + CallsRequested(Tail(msgs))

\* The lists of asks the planner may make in its next turn.
PlannerMenu(kind, msgs) ==
    IF kind = "persistent" THEN {<<ask>> : ask \in Asks({PersistentToolName})}
    ELSE IF kind = "session"
    THEN (IF CallsRequested(msgs) = 0
          THEN {<<ask>> : ask \in Asks({PersistentToolName})} ELSE {})
    ELSE IF kind = "catalog"
    THEN (IF CallsRequested(msgs) = 0 THEN {<<ask>> : ask \in Asks(discover_tools)} ELSE {})
    ELSE UNION {[1..n -> Asks(PlannerToolNames)] :
                    n \in 1..(MaxToolCalls - CallsRequested(msgs))}

----------------------------------------------------------------------------
(* The graph: agent node, tools_condition, ToolNode, and the runtime *)

\* app.invoke(initial_state) passes no config: the runtime's default
\* recursion_limit applies.
RecursionLimit == 25

RecursionText ==
    "Recursion limit of 25 reached without hitting a stop condition."

\* The runtime's check before a super-step: the step counter is past the limit.
OutOfStepsNever(s) == FALSE
OutOfSteps(s) == s > RecursionLimit

\* tools_condition: route on the last message's tool_calls.
tools_condition_always_end(m) == "__end__"
tools_condition(m) == IF Len(m.tool_calls) > 0 THEN "tools" ELSE "__end__"

\* The registry names in discover_tools' order (inspect.getmembers sorts by name).
ToolNames ==
    <<"add_secret", "cancel_job", "create_acl_scopes", "create_scope",
      "create_service_principal", "delete_acl_scopes", "delete_scope",
      "delete_secret", "delete_service_principal", "get_cluster_info",
      "get_job_details", "get_secret", "get_service_principal_details",
      "list_acl_scopes", "list_clusters", "list_jobs", "list_of_scopes",
      "list_service_principal", "restart_cluster", "start_cluster", "start_job",
      "terminate_clusters">>

\* ToolNode's answer to a call whose name is not in tools_by_name.
InvalidToolText(name) ==
    Plain("Error: " \o name \o " is not a valid tool, try one of ["
              \o Join(", ", ToolNames) \o "].")

\* ToolNode on one tool call: the tool message it yields.
ToolNodeOutput(call, outcome) ==
    IF call.name \notin discover_tools
    THEN ToolMessage(InvalidToolText(call.name), call.name, call.id, "error")
    ELSE ToolMessage(ToolCallable(baseUrl, call.name, call.args, outcome), call.name,
                     call.id, "success")

\* ToolNode on the calls of the last assistant message: one message per call,
\* in the order of the calls.
ToolNodeOutputsReversed(calls, outs) ==
    [j \in 1..Len(calls) |->
        ToolNodeOutput(calls[Len(calls) + 1 - j], outs[Len(calls) + 1 - j])]
ToolNodeOutputsKnownOnly(calls, outs) ==
    LET F[j \in 0..Len(calls)] ==
            IF j = 0 THEN <<>>
            ELSE IF calls[j].name \in discover_tools
                 THEN Append(F[j - 1], ToolNodeOutput(calls[j], outs[j]))
                 ELSE F[j - 1]
    IN F[Len(calls)]
ToolNodeOutputs(calls, outs) ==
    [j \in 1..Len(calls) |-> ToolNodeOutput(calls[j], outs[j])]

\* The state the runtime is in after a node wrote its update: out of steps,
\* or at the node the edges name.
AfterNode(s, target) == IF OutOfSteps(s) THEN "Failed" ELSE target

Last(msgs) == msgs[Len(msgs)]

----------------------------------------------------------------------------
(* predict *)

NoResponse == [unset |-> TRUE]

create_text_output_item(text, id) ==
    [type |-> "message", id |-> id,
     content |-> <<[type |-> "output_text", text |-> text]>>,
     role |-> "assistant"]

\* ResponsesAgentResponse(id=str(uuid.uuid4()),
\*     output=[create_text_output_item(text=..., id=str(uuid.uuid4()))])
TextResponse(text, drawn) ==
    [id |-> drawn + 1, output |-> <<create_text_output_item(text, drawn + 2)>>]

InvalidRequestText == Plain("Error: Model received invalid request format.")
ErrorText(e) == Plain("Sorry, an error occurred: " \o e)

\* predict, line 240: "input" in request_dict
HasInputAlways(req) == TRUE
HasInput(req) == "input" \in DOMAIN req

\* predict, lines 264-291: str(e) of the exception these lines raise on the
\* request, "" when they raise none.
TranslationFault(req) ==
    IF "input" \notin DOMAIN req THEN "'input'"
    ELSE IF "list" \notin DOMAIN req.input THEN "object of type 'int' has no len()"
    ELSE TranslateInput(req.input.list).error

----------------------------------------------------------------------------
(* Graphbuilder.__init__: the tool declarations bound to the model endpoint *)

\* A declaration is a nest of dicts, lists and scalars: [dict |-> d] with d a
\* function from its keys to values, [list |-> l] with l a sequence of values,
\* [scalar |-> s].
SchemaKeys == {"additionalProperties", "properties"}
SchemaScalars == {[scalar |-> "object"], [scalar |-> "false"]}

\* The declarations of n nodes; the lists and the dicts whose values have m
\* nodes in all.
RECURSIVE SchemasOfSize(_), SchemaListsOfSize(_), SchemaDictsOfSize(_)
SchemasOfSize(n) ==
    (IF n = 1 THEN SchemaScalars ELSE {})
        \cup {[list |-> l] : l \in SchemaListsOfSize(n - 1)}
        \cup {[dict |-> d] : d \in SchemaDictsOfSize(n - 1)}
SchemaListsOfSize(m) ==
    IF m = 0 THEN {<<>>}
    ELSE UNION {{<<t>> \o l : t \in SchemasOfSize(k), l \in SchemaListsOfSize(m - k)} :
                    k \in 1..m}
SchemaDictsOfSize(m) ==
    IF m = 0 THEN {<<>>}
    ELSE {k :> t : k \in SchemaKeys, t \in SchemasOfSize(m)}
             \cup UNION {{("additionalProperties" :> t) @@ ("properties" :> u) :
                              t \in SchemasOfSize(k), u \in SchemasOfSize(m - k)} :
                                 k \in 1..(m - 1)}

Schemas == UNION {SchemasOfSize(n) : n \in 1..MaxSize}

NoDeclaration == [unset |-> TRUE]

\* fix_schema_recursive as it would be if it stopped at a dict it took the
\* key from.
RECURSIVE fix_schema_one_level(_)
fix_schema_one_level(obj) ==
    IF "dict" \in DOMAIN obj
    THEN IF "additionalProperties" \in DOMAIN obj.dict
         THEN [dict |-> [k \in DOMAIN obj.dict \ {"additionalProperties"} |-> obj.dict[k]]]
         ELSE [dict |-> [k \in DOMAIN obj.dict |-> fix_schema_one_level(obj.dict[k])]]
    ELSE IF "list" \in DOMAIN obj
    THEN [list |-> [i \in 1..Len(obj.list) |-> fix_schema_one_level(obj.list[i])]]
    ELSE obj

\* fix_schema_recursive as it would be without its branch for lists.
RECURSIVE fix_schema_dicts_only(_)
fix_schema_dicts_only(obj) ==
    IF "dict" \in DOMAIN obj
    THEN [dict |-> [k \in DOMAIN obj.dict \ {"additionalProperties"} |->
                        fix_schema_dicts_only(obj.dict[k])]]
    ELSE obj

\* fix_schema_recursive, lines 62-73: a dict loses its 'additionalProperties'
\* key and every remaining value is fixed; every item of a list is fixed;
\* anything else is returned as it is.
RECURSIVE fix_schema_recursive(_)
fix_schema_recursive(obj) ==
    IF "dict" \in DOMAIN obj
    THEN [dict |-> [k \in DOMAIN obj.dict \ {"additionalProperties"} |->
                        fix_schema_recursive(obj.dict[k])]]
    ELSE IF "list" \in DOMAIN obj
    THEN [list |-> [i \in 1..Len(obj.list) |-> fix_schema_recursive(obj.list[i])]]
    ELSE obj

----------------------------------------------------------------------------
(* The state machine *)

\* Four environments are explored.  "varied": one well-formed request; the
\* model endpoint asks for any tools of its menu, at most MaxToolCalls calls
\* per request, and the platform answers each HTTP request with its JSON
\* object, with 403, or not at all.  "persistent": any request of Requests; the model endpoint asks for one tool
\* turn after turn (or answers, or fails) with no bound of the model, and the
\* platform always answers 2xx.  "catalog": one well-formed request; the
\* model endpoint asks once for any one tool of the registry and the platform
\* answers in any way.  "session": up to MaxRequests predict calls in a row,
\* each with a request of one message; the model endpoint asks for one tool
\* once per conversation, and the platform always answers 2xx.
Scenarios == {"varied", "persistent", "catalog", "session"}

RequestsOf(kind) ==
    IF kind = "persistent" THEN Requests
    ELSE IF kind = "session"
    THEN {[input |-> [list |-> <<item>>]] :
              item \in {i \in InputItems : DOMAIN i = {"role", "content"}}}
    ELSE {[input |-> [list |-> <<[role |-> "user", content |-> [str |-> "list my clusters"]]>>]]}

PlatformOutcomes(kind) ==
    IF kind \in {"persistent", "session"} THEN {"ok"}
    ELSE IF kind = "catalog" THEN Outcomes
    ELSE {"ok", "forbidden", "network_fault"}

\* The number of predict calls explored.
CallsAllowed(kind) == IF kind = "session" THEN MaxRequests ELSE 1

Init ==
    /\ scenario \in Scenarios
    /\ baseUrl \in BaseUrls
    /\ pc = "idle"
    /\ predictCalls = 0
    /\ request = NoRequest
    /\ messages = <<>>
    /\ answers = <<>>
    /\ plannerInput = <<>>
    /\ loop = "Idle"
    /\ step = 0
    /\ nextCall = 0
    /\ plannerCalls = 0
    /\ toolPhases = 0
    /\ toolRuns = 0
    /\ httpRequests = 0
    /\ response = NoResponse
    /\ fault = ""
    /\ outcomes = <<>>
    /\ inFlight = <<>>
    /\ uuids = 0
    /\ declaration = NoDeclaration
    /\ normalized = <<>>

\* app.invoke(initial_state) as it would be on a graph compiled with a
\* checkpointer and invoked on one thread: the saved conversation comes first.
GraphInputFromCheckpoint(saved, initial_state) == saved \o initial_state
\* app.invoke(initial_state), line 297, on the graph of workflow.compile()
\* (line 152, no checkpointer): the messages channel starts empty and the
\* reducer adds initial_state's messages to it.
GraphInput(saved, initial_state) == initial_state

\* predict, lines 216-297: up to the call of app.invoke.  Every call starts
\* afresh: what the previous call left (its graph state, its response, its
\* exception) is gone.  The graph's entry edge START -> agent makes the agent
\* node the first super-step.
predict(req) ==
    /\ pc \in {"idle", "returned", "raised"}
    /\ predictCalls < CallsAllowed(scenario)
    /\ predictCalls' = predictCalls + 1
    /\ request' = req
    /\ IF ~HasInput(req)
       THEN /\ response' = TextResponse(InvalidRequestText, uuids)
            /\ uuids' = uuids + 2
            /\ pc' = "returned"
            /\ messages' = <<>>
            /\ loop' = "Idle"
            /\ step' = 0
            /\ fault' = ""
       ELSE IF TranslationFault(req) # ""
       THEN /\ pc' = "raised"
            /\ fault' = TranslationFault(req)
            /\ response' = NoResponse
            /\ messages' = <<>>
            /\ loop' = "Idle"
            /\ step' = 0
            /\ UNCHANGED uuids
       ELSE /\ messages' = GraphInput(messages, TranslateInput(req.input.list).messages)
            /\ pc' = "invoking"
            /\ loop' = "Planning"
            /\ step' = 1
            /\ response' = NoResponse
            /\ fault' = ""
            /\ UNCHANGED uuids
    /\ answers' = <<>>
    /\ plannerInput' = <<>>
    /\ plannerCalls' = 0
    /\ toolPhases' = 0
    /\ toolRuns' = 0
    /\ httpRequests' = 0
    /\ outcomes' = <<>>
    /\ inFlight' = <<>>
    /\ UNCHANGED <<scenario, baseUrl, nextCall>>
    /\ UNCHANGED schemaVars

\* agent_function, line 102: input_messages = [SystemMessage(content=
\* self.system_prompt)] + messages
PlannerInput(msgs) == <<SystemMessage(Plain(SYSTEM_PROMPT))>> \o msgs

\* The agent node as it would be if it returned its whole input with the
\* response: the system prompt would enter the conversation.
AgentReturnsItsInput(m) ==
    /\ messages' = Append(PlannerInput(messages), m)
    /\ answers' = Append(answers, m)
    /\ step' = step + 1
    /\ loop' = AfterNode(step + 1,
                         IF tools_condition(m) = "tools" THEN "Executing" ELSE "Done")
    /\ fault' = IF OutOfSteps(step + 1) THEN RecursionText ELSE fault

\* The agent node returned {'messages': [response]}: the reducer appends it,
\* and the runtime either runs out of steps or follows tools_condition.
AgentReturns(m) ==
    /\ messages' = Append(messages, m)
    /\ answers' = Append(answers, m)
    /\ step' = step + 1
    /\ loop' = AfterNode(step + 1,
                         IF tools_condition(m) = "tools" THEN "Executing" ELSE "Done")
    /\ fault' = IF OutOfSteps(step + 1) THEN RecursionText ELSE fault

\* agent_function, one super-step: the model endpoint is called once with
\* [SystemMessage(system_prompt)] + messages and answers, asks for tools, or fails.
agent_function ==
    /\ pc = "invoking"
    /\ loop = "Planning"
    /\ plannerCalls' = plannerCalls + 1
    /\ plannerInput' = PlannerInput(messages)
    /\ \/ \E t \in AnswerTexts :
            /\ AgentReturns(AIMessage(Plain(t), <<>>))
            /\ UNCHANGED nextCall
       \/ \E names \in PlannerMenu(scenario, messages) :
            /\ AgentReturns(AIMessage(Plain(""), ToolCalls(names, nextCall)))
            /\ nextCall' = nextCall + Len(names)
       \/ \E e \in EndpointFaults :
            /\ loop' = "Failed"
            /\ fault' = e
            /\ UNCHANGED <<messages, answers, step, nextCall>>
    /\ UNCHANGED <<scenario, baseUrl, inFlight, pc, predictCalls, request, toolPhases, toolRuns, httpRequests,
                   response, outcomes, uuids>>
    /\ UNCHANGED schemaVars

\* The state of each call of the ToolNode run: before any call is taken up,
\* none is entered.
CallStates(calls) ==
    IF inFlight = <<>> THEN [j \in 1..Len(calls) |-> NotEntered] ELSE inFlight

\* Every call of the run has its outcome.
AllResolved(states) == \A j \in 1..Len(states) : states[j] \notin {NotEntered, Waiting}

\* ToolNode takes up call j of the last assistant message.  A name that is
\* not registered reaches no callable.  A registered callable is invoked: it
\* either raises before a request goes on the wire and returns its error
\* payload at once, or it issues its request and blocks until the answer
\* comes or the 30 seconds of the timeout pass.  The calls of one message may
\* be taken up in any order, and one may be taken up while another waits.
tool_invoke(j) ==
    /\ pc = "invoking"
    /\ loop = "Executing"
    /\ LET calls == Last(messages).tool_calls
           states == CallStates(calls)
       IN /\ j \in 1..Len(calls)
          /\ states[j] = NotEntered
          /\ IF calls[j].name \notin discover_tools
             THEN /\ inFlight' = [states EXCEPT ![j] = NotInvoked]
                  /\ UNCHANGED <<toolRuns, httpRequests>>
             ELSE IF PreRequestFault(baseUrl, calls[j].name, calls[j].args) # ""
             THEN /\ inFlight' = [states EXCEPT ![j] = NoHttp]
                  /\ toolRuns' = toolRuns + 1
                  /\ UNCHANGED httpRequests
             ELSE /\ inFlight' = [states EXCEPT ![j] = Waiting]
                  /\ toolRuns' = toolRuns + 1
                  /\ httpRequests' = httpRequests + 1
    /\ UNCHANGED <<scenario, baseUrl, pc, predictCalls, request, messages, answers,
                   plannerInput, loop, step, nextCall, plannerCalls, toolPhases, response,
                   fault, outcomes, uuids>>
    /\ UNCHANGED schemaVars

\* The platform answers the request of call j, or the timeout passes: the
\* callable goes on to its return.
tool_answered(j) ==
    /\ pc = "invoking"
    /\ loop = "Executing"
    /\ j \in 1..Len(inFlight)
    /\ inFlight[j] = Waiting
    /\ \E outcome \in PlatformOutcomes(scenario) :
            inFlight' = [inFlight EXCEPT ![j] = outcome]
    /\ UNCHANGED <<scenario, baseUrl, pc, predictCalls, request, messages, answers,
                   plannerInput, loop, step, nextCall, plannerCalls, toolPhases, toolRuns,
                   httpRequests, response, fault, outcomes, uuids>>
    /\ UNCHANGED schemaVars

\* ToolNode as it would be if a failed tool call ended the run.
ToolNode_AbortsOnToolFailure ==
    /\ pc = "invoking"
    /\ loop = "Executing"
    /\ inFlight # <<>>
    /\ AllResolved(inFlight)
    /\ LET calls == Last(messages).tool_calls
           outs == inFlight
       IN   /\ messages' = messages \o ToolNodeOutputs(calls, outs)
            /\ answers' = answers \o ToolNodeOutputs(calls, outs)
            /\ outcomes' = outs
            /\ loop' = IF \E j \in 1..Len(outs) : outs[j] \in Outcomes \ {"ok"}
                       THEN "Failed" ELSE AfterNode(step + 1, "Planning")
            /\ fault' = IF \E j \in 1..Len(outs) : outs[j] \in Outcomes \ {"ok"}
                        THEN "tool call failed"
                        ELSE IF OutOfSteps(step + 1) THEN RecursionText ELSE fault
    /\ inFlight' = <<>>
    /\ toolPhases' = toolPhases + 1
    /\ step' = step + 1
    /\ UNCHANGED <<scenario, baseUrl, pc, predictCalls, request, plannerInput, nextCall,
                   plannerCalls, toolRuns, httpRequests, response, uuids>>
    /\ UNCHANGED schemaVars

\* ToolNode returns, one super-step done: every call of the last assistant
\* message has its outcome; the tool messages are appended in the order of
\* the calls and the edge tools -> agent follows.  The graph state changes
\* only here.
ToolNode ==
    /\ pc = "invoking"
    /\ loop = "Executing"
    /\ inFlight # <<>>
    /\ AllResolved(inFlight)
    /\ LET calls == Last(messages).tool_calls
           outs == inFlight
       IN   /\ messages' = messages \o ToolNodeOutputs(calls, outs)
            /\ answers' = answers \o ToolNodeOutputs(calls, outs)
            /\ outcomes' = outs
    /\ inFlight' = <<>>
    /\ toolPhases' = toolPhases + 1
    /\ step' = step + 1
    /\ loop' = AfterNode(step + 1, "Planning")
    /\ fault' = IF OutOfSteps(step + 1) THEN RecursionText ELSE fault
    /\ UNCHANGED <<scenario, baseUrl, pc, predictCalls, request, plannerInput, nextCall,
                   plannerCalls, toolRuns, httpRequests, response, uuids>>
    /\ UNCHANGED schemaVars

\* predict as it would be if it answered with the first message of the
\* final state instead of the last.
predict_return_first_message ==
    /\ pc = "invoking"
    /\ loop = "Done"
    /\ response' = TextResponse(messages[1].content, uuids)
    /\ uuids' = uuids + 2
    /\ pc' = "returned"
    /\ UNCHANGED <<scenario, baseUrl, inFlight, predictCalls, request, messages, answers, plannerInput, loop, step,
                   nextCall, plannerCalls, toolPhases, toolRuns, httpRequests, fault,
                   outcomes>>
    /\ UNCHANGED schemaVars

\* predict, lines 299-319: app.invoke returned; the last message's content
\* becomes the response text.
predict_return ==
    /\ pc = "invoking"
    /\ loop = "Done"
    /\ response' = TextResponse(Last(messages).content, uuids)
    /\ uuids' = uuids + 2
    /\ pc' = "returned"
    /\ UNCHANGED <<scenario, baseUrl, inFlight, predictCalls, request, messages, answers, plannerInput, loop, step,
                   nextCall, plannerCalls, toolPhases, toolRuns, httpRequests, fault,
                   outcomes>>
    /\ UNCHANGED schemaVars

\* predict as it would be without the except branch around app.invoke.
predict_except_missing ==
    /\ pc = "invoking"
    /\ loop = "Failed"
    /\ pc' = "raised"
    /\ UNCHANGED <<scenario, baseUrl, inFlight, predictCalls, request, messages, answers, plannerInput, loop, step,
                   nextCall, plannerCalls, toolPhases, toolRuns, httpRequests, response,
                   fault, outcomes, uuids>>
    /\ UNCHANGED schemaVars

\* predict, lines 323-343: app.invoke raised; the except branch answers.
predict_except ==
    /\ pc = "invoking"
    /\ loop = "Failed"
    /\ response' = TextResponse(ErrorText(fault), uuids)
    /\ uuids' = uuids + 2
    /\ pc' = "returned"
    /\ UNCHANGED <<scenario, baseUrl, inFlight, predictCalls, request, messages, answers, plannerInput, loop, step,
                   nextCall, plannerCalls, toolPhases, toolRuns, httpRequests, fault,
                   outcomes>>
    /\ UNCHANGED schemaVars

Next ==
    \/ \E req \in RequestsOf(scenario) : predict(req)
    \/ agent_function
    \/ \E j \in 1..MaxToolCalls : tool_invoke(j)
    \/ \E j \in 1..MaxToolCalls : tool_answered(j)
    \/ ToolNode
    \/ predict_return
    \/ predict_except

Spec == Init /\ [][Next]_vars

\* Schema normalization on its own: any declaration of at most MaxSize nodes,
\* fixed at most MaxPasses times in a row.  predict is never called.
SchemaInit ==
    /\ declaration \in Schemas
    /\ normalized = <<>>
    /\ scenario = "varied"
    /\ baseUrl = DATABRICKS_BASE_URL
    /\ pc = "idle"
    /\ predictCalls = 0
    /\ request = NoRequest
    /\ messages = <<>>
    /\ answers = <<>>
    /\ plannerInput = <<>>
    /\ loop = "Idle"
    /\ step = 0
    /\ nextCall = 0
    /\ plannerCalls = 0
    /\ toolPhases = 0
    /\ toolRuns = 0
    /\ httpRequests = 0
    /\ response = NoResponse
    /\ fault = ""
    /\ outcomes = <<>>
    /\ inFlight = <<>>
    /\ uuids = 0

\* Graphbuilder.__init__, line 78: fix_schema_recursive(tool_dict) changes
\* tool_dict in place; a further pass works on the outcome of the pass before.
FixSchema ==
    /\ Len(normalized) < MaxPasses
    /\ normalized' = Append(normalized,
                            fix_schema_recursive(IF normalized = <<>> THEN declaration
                                                 ELSE Last(normalized)))
    /\ UNCHANGED <<scenario, baseUrl, inFlight, pc, predictCalls, request, messages, answers, plannerInput, loop,
                   step, nextCall, plannerCalls, toolPhases, toolRuns, httpRequests,
                   response, fault, outcomes, uuids, declaration>>

SchemaNext == FixSchema

SchemaSpec == SchemaInit /\ [][SchemaNext]_vars

----------------------------------------------------------------------------
(* Properties *)

\* The (message index, call index) pairs of the tool-call requests in a conversation.
RequestsIn(msgs) ==
    UNION {{<<i, j>> : j \in 1..Len(msgs[i].tool_calls)} : i \in 1..Len(msgs)}

\* The indices of the tool messages tagged with a call identifier.
ResultsFor(msgs, id) ==
    {k \in 1..Len(msgs) : msgs[k].type = "tool" /\ msgs[k].tool_call_id = id}

ToolMessagesIn(msgs) == {k \in 1..Len(msgs) : msgs[k].type = "tool"}

\* C1: whenever the Planner Step is about to be invoked, every tool-call
\* request of the conversation has exactly one tool message tagged with its
\* call identifier, and there is no tool message besides these.
C1_EveryCallResolvedOnce ==
    (loop = "Planning") =>
        /\ \A r \in RequestsIn(messages) :
              Cardinality(ResultsFor(messages, messages[r[1]].tool_calls[r[2]].id)) = 1
        /\ Cardinality(ToolMessagesIn(messages)) = Cardinality(RequestsIn(messages))

\* C1 witness: the planner is about to be invoked after a turn that asked for
\* two tools, one of them unknown to the registry.
C1_Witness ==
    /\ loop = "Planning"
    /\ \E i \in 1..Len(messages) :
          /\ Len(messages[i].tool_calls) = 2
          /\ messages[i].tool_calls[1].name \notin discover_tools
          /\ messages[i].tool_calls[2].name \in discover_tools

\* C2: whatever follows an assistant message that carries tool calls starts
\* with the tool messages of those calls, one per call, in the order the calls
\* were requested.
C2_ResultsInRequestOrder ==
    \A i \in 1..Len(messages) :
        (Len(messages[i].tool_calls) > 0 /\ i < Len(messages)) =>
            /\ i + Len(messages[i].tool_calls) <= Len(messages)
            /\ \A j \in 1..Len(messages[i].tool_calls) :
                  /\ messages[i + j].type = "tool"
                  /\ messages[i + j].tool_call_id = messages[i].tool_calls[j].id
                  /\ messages[i + j].name = messages[i].tool_calls[j].name

\* C2 witness: a turn asked for two different registered tools and both
\* results are in the conversation.
C2_Witness ==
    \E i \in 1..Len(messages) :
        /\ Len(messages[i].tool_calls) = 2
        /\ messages[i].tool_calls[1].name = "list_clusters"
        /\ messages[i].tool_calls[2].name = "add_secret"
        /\ i + 2 <= Len(messages)
        /\ messages[i + 2].type = "tool"

\* The planner returned a message in this step.
PlannerReturned == loop = "Planning" /\ messages' # messages

\* C3, as claimed: the loop starts in Planning; from Planning it moves to Done
\* exactly when the returned message carries no tool calls and to Executing
\* exactly when it carries some; Executing is followed by Planning; nothing
\* of the loop changes after Done until predict is called again.
C3_AsClaimed ==
    [][/\ (loop = "Idle" /\ loop' # "Idle") => loop' = "Planning"
       /\ PlannerReturned =>
             /\ (loop' = "Done") <=> (Len(Last(messages').tool_calls) = 0)
             /\ (loop' = "Executing") <=> (Len(Last(messages').tool_calls) > 0)
       /\ (loop = "Executing" /\ loop' # "Executing") => loop' = "Planning"
       /\ (loop = "Done" /\ request' = request /\ predictCalls' = predictCalls) =>
             /\ loop' = "Done"
             /\ UNCHANGED <<messages, plannerCalls, toolPhases, toolRuns>>]_vars

\* C3, amended: the same, for every Planner Step but the one that uses up the
\* runtime's recursion limit; when the message of that one carries tool calls
\* the run fails with the recursion error and Executing is not entered.
C3_Transitions ==
    [][/\ (loop = "Idle" /\ loop' # "Idle") => loop' = "Planning"
       /\ (PlannerReturned /\ step' <= RecursionLimit) =>
             /\ (loop' = "Done") <=> (Len(Last(messages').tool_calls) = 0)
             /\ (loop' = "Executing") <=> (Len(Last(messages').tool_calls) > 0)
       /\ (PlannerReturned /\ step' > RecursionLimit
                           /\ Len(Last(messages').tool_calls) > 0) =>
             /\ loop' = "Failed"
             /\ fault' = RecursionText
       /\ (loop = "Executing" /\ loop' # "Executing") => loop' = "Planning"
       /\ (loop = "Done" /\ request' = request /\ predictCalls' = predictCalls) =>
             /\ loop' = "Done"
             /\ UNCHANGED <<messages, plannerCalls, toolPhases, toolRuns>>]_vars

\* C3 witness: a run went Planning, Executing, Planning, Done and predict returned.
C3_Witness ==
    /\ loop = "Done"
    /\ pc = "returned"
    /\ toolPhases = 1
    /\ plannerCalls = 2

\* The one output text of a response.
OutputText(r) == r.output[1].content[1].text

IsTextResponse(r) ==
    /\ "output" \in DOMAIN r
    /\ Len(r.output) = 1
    /\ Len(r.output[1].content) = 1

\* C4: once predict has been called with a request that has no `input`
\* field, it has returned the invalid-format response, and neither the graph
\* nor the planner nor any tool has run.
C4_NoInputShortCircuits ==
    (pc # "idle" /\ "input" \notin DOMAIN request) =>
        /\ pc = "returned"
        /\ IsTextResponse(response)
        /\ OutputText(response) = InvalidRequestText
        /\ loop = "Idle"
        /\ plannerCalls = 0
        /\ toolPhases = 0
        /\ toolRuns = 0

\* C4 witness: predict returned for a request without `input`.
C4_Witness == pc = "returned" /\ "input" \notin DOMAIN request

\* C5: a fault raised while the graph runs never leaves predict, and once
\* predict has returned after one, its single output text is
\* "Sorry, an error occurred: " followed by the fault's message.
C5_LoopFaultCaught ==
    (loop = "Failed") =>
        /\ pc \in {"invoking", "returned"}
        /\ fault # ""
        /\ (pc = "returned") =>
              /\ IsTextResponse(response)
              /\ OutputText(response) = Plain("Sorry, an error occurred: " \o fault)

\* C5 witness: predict returned after the model endpoint failed in the second
\* Planner Step.
C5_Witness ==
    /\ loop = "Failed"
    /\ pc = "returned"
    /\ fault \in EndpointFaults
    /\ plannerCalls = 2

\* C6, as claimed: predict never lets an exception out.
C6_AlwaysResponds == pc # "raised"

\* The text is a JSON object with an "error" key and a "tool" key.
IsErrorPayload(text) ==
    /\ "json_object" \in DOMAIN text
    /\ {"error", "tool"} \subseteq DOMAIN text.json_object

\* The callable of the call ended in its except branch: it raised before its
\* request, the request got an error status or no answer, or the body of a
\* 200 answer was not what the tool reads.
CallFailed(call, outcome) ==
    \/ outcome \in {NoHttp, "forbidden", "server_error", "network_fault"}
    \/ /\ outcome = "not_json"
       /\ ToolTable[call.name].returns \in {"response", "clusters", "scopes"}
    \/ /\ outcome = "json_list"
       /\ ToolTable[call.name].returns \in {"clusters", "scopes"}

\* C7, as claimed: after a ToolNode run, the result of every call whose
\* callable failed is a JSON object with an "error" key and a "tool" key
\* equal to the registered name of the tool called.
C7_ErrorPayloadNamesTool ==
    (loop = "Planning" /\ toolPhases > 0) =>
        \A j \in 1..Len(outcomes) :
            LET i == Len(messages) - Len(outcomes) IN
            CallFailed(messages[i].tool_calls[j], outcomes[j]) =>
                /\ IsErrorPayload(messages[i + j].content)
                /\ messages[i + j].content.json_object.tool = messages[i + j].name

\* C8: a ToolNode run always hands the run back to the Planner Step, with no
\* fault raised, whatever its callables do meanwhile; the result of a call
\* whose callable failed is an ordinary tool message that holds the callable's
\* error payload and is tagged with the call.
C8_ToolFailureFeedsBack ==
    [][(loop = "Executing") =>
          /\ loop' \in {"Executing", "Planning"}
          /\ pc' = "invoking"
          /\ fault' = fault
          /\ plannerCalls' = plannerCalls
          /\ (loop' = "Executing") => messages' = messages
          /\ (loop' = "Planning") =>
                /\ Len(messages') = Len(messages) + Len(Last(messages).tool_calls)
                /\ \A j \in 1..Len(outcomes') :
                      LET call == Last(messages).tool_calls[j] IN
                      CallFailed(call, outcomes'[j]) =>
                          LET m == messages'[Len(messages) + j] IN
                          /\ m.type = "tool"
                          /\ m.status = "success"
                          /\ m.tool_call_id = call.id
                          /\ IsErrorPayload(m.content)
                          /\ m.content = ToolCallable(baseUrl, call.name, call.args,
                                                     outcomes'[j])]_vars

\* C8 witness: a tool call failed, the planner was called again and answered,
\* and predict returned that answer.
C8_Witness ==
    /\ loop = "Done"
    /\ pc = "returned"
    /\ toolPhases = 1
    /\ outcomes = <<"network_fault">>
    /\ IsErrorPayload(messages[Len(messages) - 1].content)
    /\ OutputText(response) = Last(messages).content

\* The (message index, call index) pairs of the requests that name no registered tool.
UnknownRequestsIn(msgs) ==
    {r \in RequestsIn(msgs) : msgs[r[1]].tool_calls[r[2]].name \notin discover_tools}

\* C9, as claimed: after a request for an unregistered tool no further
\* Planner Step runs, and predict returns an error response.  ToolNode
\* answers such a call with an error tool message and the planner runs again.
C9_UnknownToolAborts ==
    \A r \in UnknownRequestsIn(messages) :
        /\ \A k \in (r[1] + 1)..Len(messages) : messages[k].type # "ai"
        /\ (pc = "returned") =>
              /\ loop = "Failed"
              /\ OutputText(response) = ErrorText(fault)

\* The number of assistant turns that asked for tools.
ToolTurns(msgs) == Cardinality({i \in 1..Len(msgs) : Len(msgs[i].tool_calls) > 0})

\* The most ToolNode runs the recursion limit leaves room for.
MaxToolPhases == (RecursionLimit - 1) \div 2

\* C10, as claimed: when predict returns, every turn in which the planner
\* asked for tools was followed by its Executing phase.
C10_NeverCutShort ==
    (pc = "returned" /\ loop # "Idle") => toolPhases = ToolTurns(messages)

\* C10, amended: a run performs at most MaxToolPhases Executing phases; up to
\* that number every turn that asks for tools gets its Executing phase; the
\* turn after it is cut short by the recursion error, which predict reports;
\* and a run reaches Done only through a turn that asks for no tool.
C10_CutAtRecursionLimit ==
    /\ toolPhases <= MaxToolPhases
    /\ (pc = "returned" /\ loop # "Idle" /\ toolPhases # ToolTurns(messages)) =>
          /\ toolPhases = MaxToolPhases
          /\ ToolTurns(messages) = MaxToolPhases + 1
          /\ loop = "Failed"
          /\ fault = RecursionText
          /\ OutputText(response) = ErrorText(RecursionText)
    /\ (loop = "Done") =>
          /\ Len(Last(messages).tool_calls) = 0
          /\ toolPhases = ToolTurns(messages)

\* C10 witness: the planner asked for tools in every turn and predict
\* returned the recursion error after MaxToolPhases Executing phases.
C10_Witness ==
    /\ pc = "returned"
    /\ fault = RecursionText
    /\ toolPhases = MaxToolPhases
    /\ ToolTurns(messages) = plannerCalls

\* The request's `input` is a list of one user message.
SingleUserMessage(req) ==
    /\ "input" \in DOMAIN req
    /\ "list" \in DOMAIN req.input
    /\ Len(req.input.list) = 1
    /\ DOMAIN req.input.list[1] = {"role", "content"}
    /\ req.input.list[1].role = "user"

\* The first Planner Step of the run returned a message with no tool calls.
FirstPlannerTerminal ==
    /\ Len(messages) >= 2
    /\ messages[2].type = "ai"
    /\ Len(messages[2].tool_calls) = 0

\* C11: for a request of one user message whose first Planner Step returns a
\* message with no tool calls, the run is over after that one planner call
\* with no tool invoked, and once predict has returned, the response has
\* exactly one output item whose text is the planner's text.
C11_DirectAnswer ==
    (SingleUserMessage(request) /\ FirstPlannerTerminal) =>
        /\ Len(messages) = 2
        /\ plannerCalls = 1
        /\ toolPhases = 0
        /\ toolRuns = 0
        /\ loop = "Done"
        /\ pc \in {"invoking", "returned"}
        /\ (pc = "returned") =>
              /\ IsTextResponse(response)
              /\ response.output[1].type = "message"
              /\ response.output[1].role = "assistant"
              /\ response.output[1].content[1].type = "output_text"
              /\ OutputText(response) = messages[2].content

\* C11 witness: predict returned the planner's direct answer to one user message.
C11_Witness ==
    /\ SingleUserMessage(request)
    /\ FirstPlannerTerminal
    /\ pc = "returned"
    /\ OutputText(response) = Plain("You have one cluster: c1.")

\* Some dict of the structure, at any depth, has the key.
RECURSIVE HasAdditionalProperties(_)
HasAdditionalProperties(obj) ==
    IF "dict" \in DOMAIN obj
    THEN \/ "additionalProperties" \in DOMAIN obj.dict
         \/ \E k \in DOMAIN obj.dict : HasAdditionalProperties(obj.dict[k])
    ELSE IF "list" \in DOMAIN obj
    THEN \E i \in 1..Len(obj.list) : HasAdditionalProperties(obj.list[i])
    ELSE FALSE

\* `after` is `before` with nothing changed but 'additionalProperties' keys
\* (and what they held) taken out of dicts.
RECURSIVE OnlyKeyRemoved(_, _)
OnlyKeyRemoved(before, after) ==
    IF "dict" \in DOMAIN before
    THEN /\ "dict" \in DOMAIN after
         /\ DOMAIN after.dict = DOMAIN before.dict \ {"additionalProperties"}
         /\ \A k \in DOMAIN after.dict : OnlyKeyRemoved(before.dict[k], after.dict[k])
    ELSE IF "list" \in DOMAIN before
    THEN /\ "list" \in DOMAIN after
         /\ Len(after.list) = Len(before.list)
         /\ \A i \in 1..Len(before.list) : OnlyKeyRemoved(before.list[i], after.list[i])
    ELSE after = before

\* C12: a second pass of fix_schema_recursive leaves the result of the first
\* pass as it is, and so does every further pass.
C12_FixIdempotent ==
    \A i \in 2..Len(normalized) : normalized[i] = normalized[1]

\* C12 witness: two passes were made over a declaration whose top-level dict
\* has the key and holds, under another key, a dict that has it too.
C12_Witness ==
    /\ Len(normalized) = 2
    /\ "dict" \in DOMAIN declaration
    /\ DOMAIN declaration.dict = SchemaKeys
    /\ HasAdditionalProperties(declaration.dict["properties"])
    /\ normalized[1] # declaration

\* C13: after a pass no dict of the declaration, at any depth, has the key
\* 'additionalProperties', and the declaration is otherwise what it was.
C13_KeyRemovedEverywhere ==
    (Len(normalized) >= 1) =>
        /\ ~HasAdditionalProperties(normalized[1])
        /\ OnlyKeyRemoved(declaration, normalized[1])

\* C13 witness: a pass was made over a dict that holds a list that holds a
\* dict with the key and, besides it, another key whose value was kept.
C13_Witness ==
    /\ Len(normalized) >= 1
    /\ "dict" \in DOMAIN declaration
    /\ "properties" \in DOMAIN declaration.dict
    /\ "list" \in DOMAIN declaration.dict["properties"]
    /\ \E i \in 1..Len(declaration.dict["properties"].list) :
          LET item == declaration.dict["properties"].list[i] IN
          /\ "dict" \in DOMAIN item
          /\ DOMAIN item.dict = SchemaKeys
          /\ normalized[1].dict["properties"].list[i] =
                 [dict |-> ("properties" :> item.dict["properties"])]

\* The roles the translation keeps, and the message type each is mapped to.
ConversationRoles == {"user", "assistant", "system"}
MessageTypeOf(role) ==
    CASE role = "user" -> "human"
      [] role = "assistant" -> "ai"
      [] role = "system" -> "system"

HasConversationRole(item) == item.role \in ConversationRoles

\* Every item of the request's `input` list has a role and a content.
AllItemsAreMessages(req) ==
    /\ "input" \in DOMAIN req
    /\ "list" \in DOMAIN req.input
    /\ \A i \in 1..Len(req.input.list) :
          {"role", "content"} \subseteq DOMAIN req.input.list[i]

\* C14: a request whose items all have a role and a content is translated
\* without an exception; the conversation the graph is invoked with holds
\* exactly the items of role user, assistant or system, in their order, each
\* as the message of its role with the item's text, and stays the head of
\* the conversation afterwards.
C14_TranslationKeepsKnownRoles ==
    /\ (pc # "idle" /\ AllItemsAreMessages(request)) => pc # "raised"
    /\ (loop # "Idle") =>
          LET kept == SelectSeq(request.input.list, HasConversationRole) IN
          /\ Len(messages) >= Len(kept)
          /\ (step = 1) => Len(messages) = Len(kept)
          /\ \A i \in 1..Len(kept) :
                /\ messages[i].type = MessageTypeOf(kept[i].role)
                /\ messages[i].content = ContentText(kept[i].content)
                /\ messages[i].tool_calls = <<>>

\* C14 witness: the graph is about to start on a request of a tool-role item
\* followed by a user item, and its conversation is the user message alone.
C14_Witness ==
    /\ pc = "invoking"
    /\ step = 1
    /\ Len(request.input.list) = 2
    /\ request.input.list[1].role = "tool"
    /\ request.input.list[2].role = "user"
    /\ messages = <<HumanMessage(Plain("list my clusters"))>>

\* C15, as claimed: every invocation of a tool callable issues exactly one
\* HTTP request: at any time the tools have issued as many HTTP requests as
\* callables were invoked.
C15_OneRequestPerInvocation == httpRequests = toolRuns

\* The conversation of a request: its translated `input` followed by what
\* the planner and the tools gave while it ran.
ConversationOf(req, given) == TranslateInput(req.input.list).messages \o given

\* The text predict answers with, from the request, what the planner and the
\* tools gave during it, and the exception its graph run raised ("" for none).
AnswerOf(req, given, raised) ==
    IF "input" \notin DOMAIN req THEN InvalidRequestText
    ELSE IF raised # "" THEN Plain("Sorry, an error occurred: " \o raised)
    ELSE Last(ConversationOf(req, given)).content

\* C16: in every predict call of a sequence of calls on one agent, the
\* conversation of the graph is the translation of that call's `input`
\* followed by the messages the planner and the tools gave during that call,
\* and the text of the response is determined by these alone.
C16_NothingCrossesRequests ==
    /\ (loop # "Idle") => messages = ConversationOf(request, answers)
    /\ (pc = "returned") =>
          /\ IsTextResponse(response)
          /\ OutputText(response) = AnswerOf(request, answers, fault)

\* C16 witness: the second predict call on the agent returned after a run
\* with one tool call, and the first call had run a tool call of its own.
C16_Witness ==
    /\ predictCalls = 2
    /\ pc = "returned"
    /\ loop = "Done"
    /\ toolPhases = 1
    /\ nextCall = 2
    /\ Len(messages) = 4
    /\ messages[1].type = "system"

\* s is the head of t.
IsPrefix(s, t) == Len(s) <= Len(t) /\ SubSeq(t, 1, Len(s)) = s

\* C17: every call of the model endpoint is given the built-in system prompt
\* followed by the whole conversation as it is at that time; a Planner Step
\* adds one assistant message at the end of the conversation (none when the
\* endpoint fails), a ToolNode run adds tool messages at the end, and no step
\* of a run changes or removes a message; the conversation always starts with
\* the translated inbound messages, and neither holds the built-in system
\* prompt nor any system message after them.
C17_PromptPrependedNotStored ==
    [][/\ (plannerCalls' = plannerCalls + 1) =>
             /\ plannerInput' = <<SystemMessage(Plain(SYSTEM_PROMPT))>> \o messages
             /\ \/ messages' = messages /\ loop' = "Failed"
                \/ /\ Len(messages') = Len(messages) + 1
                   /\ IsPrefix(messages, messages')
                   /\ Last(messages').type = "ai"
       /\ (loop = "Executing") =>
             /\ IsPrefix(messages, messages')
             /\ \A i \in (Len(messages) + 1)..Len(messages') : messages'[i].type = "tool"
       /\ (predictCalls' = predictCalls) => IsPrefix(messages, messages')
       /\ (loop' # "Idle") =>
             LET inbound == TranslateInput(request'.input.list).messages IN
             /\ IsPrefix(inbound, messages')
             /\ \A i \in (Len(inbound) + 1)..Len(messages') :
                   messages'[i].type \in {"ai", "tool"}
             /\ \A i \in 1..Len(messages') :
                   messages'[i] # SystemMessage(Plain(SYSTEM_PROMPT))]_vars

\* C17 witness: after an inbound system message, a tool turn and a second
\* planner call, predict returned; the second call was given the built-in
\* prompt and then the inbound message, the tool turn and the tool result.
C17_Witness ==
    /\ pc = "returned"
    /\ loop = "Done"
    /\ plannerCalls = 2
    /\ toolPhases = 1
    /\ Len(messages) = 4
    /\ messages[1] = SystemMessage(Plain("be brief"))
    /\ Len(plannerInput) = 4
    /\ plannerInput[1] = SystemMessage(Plain(SYSTEM_PROMPT))
    /\ Tail(plannerInput) = SubSeq(messages, 1, 3)

====
